---- MODULE Spec2Model ----
(***************************************************************************)
(* Model of the pressure-meter polling session (pressure/device.go, kept   *)
(* in readme.md): the PressureMeter object, the polling goroutine that     *)
(* Start spawns, the buffered readings channel and its consumers (Spec),   *)
(* and the synchronous reads of a session (ReadSpec).                      *)
(***************************************************************************)
EXTENDS Integers, Sequences, FiniteSets, TLC

(* ------------------------------ bounds -------------------------------- *)
\* cap(pm.readings): make(chan PressureReading, 100), scaled down
Capacity == 2
\* polling goroutines that can be spawned by Start
MaxLoops == 2
\* readings produced by the polling goroutines in one run: enough to find
\* the channel full
MaxTicks == Capacity + 1
\* longest payload the transport returns
MaxPayloadLen == 5
\* Close calls made in one run
MaxCloses == 2
\* Update calls made on a Statistics value since it was zero
MaxUpdates == 4
\* largest config.MaxDevices of a scan
MaxCap == 2
\* largest search space (ports x baud rates x station IDs) of a scan
MaxProbes == 4

(* ---------------------------- constants ------------------------------- *)
DecimalFormat == 0
FloatFormat == 1
\* a DataFormatType value that is neither DecimalFormat nor FloatFormat
OtherFormat == 2
PayloadLen == 4
\* the smallest read interval validateConfig accepts, in milliseconds
MinReadInterval == 100
\* ConfigSource
SourceDefault == 0
SourceFile == 1
SourceEnv == 2
SourceFlags == 3

DataFormats == {DecimalFormat, FloatFormat, OtherFormat}
\* the goroutines that call Stop or Close at the same time
Callers == {"A", "B"}
LoopIds == 1..MaxLoops

VARIABLES
    running,      \* pm.running
    stopCh,       \* pm.stopCh: "open" or "closed"
    readings,     \* pm.readings: the buffered channel, oldest first
    dataFormat,   \* pm.dataFormat, set from config.DataFormat
    readingsCh,   \* state of the channel pm.readings: "open" or "closed"
    handlerOpen,  \* the connection behind pm.handler is open
    closeCalls,   \* number of pm.handler.Close() calls made
    panicked,     \* the process died of a runtime panic
    pc,           \* position of each polling goroutine
    resp,         \* results, err of the transaction ReadPressure just made
    cur,          \* the Reading the goroutine is delivering
    nextSeq,      \* history: number of the next Reading produced
    consumed,     \* history: a consumer has removed a Reading
    enqAfterStop, \* history: Readings enqueued since stopCh was closed, up to 2
    lastRead,     \* the last synchronous ReadPressure call: inputs and result
    lastOp,       \* history: the last call made on the session and its branch
    data,         \* the payload handed to a decoder or to the classifier
    out,          \* what the decoder or classifier call on data returned
    call,         \* the scanner entry point called: ScanDevices or AutoConfigure
    scanConfig,   \* config of ScanDevices, serialPorts in SerialPorts
    verbose,      \* s.verbose
    world,        \* the candidates (port, baud, station) a device answers at
    scanPc,       \* position of the scan
    portIdx,      \* ScanDevices: index of port in serialPorts
    baudIdx,      \* scanPort: index of baudRate in config.BaudRates
    idIdx,        \* scanPortWithBaudRate: index of slaveID in config.SlaveIDs
    passDevices,  \* scanPortWithBaudRate: devices
    portDevices,  \* scanPort: devices
    result,       \* ScanDevices: result
    probes,       \* history: the testDevice calls made, in order
    autoConfig,   \* what AutoConfigure returned
    stats,        \* a Statistics value
    fed,          \* history: the values fed to stats since it was zero
    newConfig,    \* the Config handed to NewPressureMeter, Connect succeeding or not
    newResult,    \* what NewPressureMeter returned and the Start that followed
    loadInput,    \* the loader, the file, the environment and the command line
    loadResult,   \* what LoadConfigWithSource returned
    callerOp,     \* concurrent callers: the method each one called
    callerPc,     \* concurrent callers: the position of each in its method
    stopChCloses  \* history: the close(pm.stopCh) statements executed

vars == <<running, stopCh, readings, dataFormat, readingsCh, handlerOpen, closeCalls,
          panicked, pc, resp, cur, nextSeq, consumed,
          enqAfterStop, lastRead, lastOp, data, out, call, scanConfig,
          verbose, world, scanPc, portIdx, baudIdx, idIdx, passDevices,
          portDevices, result, probes, autoConfig, stats, fed, newConfig,
          newResult, loadInput, loadResult, callerOp, callerPc, stopChCloses>>

sessionVars == <<running, stopCh, dataFormat, readingsCh, handlerOpen,
                 closeCalls, panicked, lastRead>>
loopVars == <<pc, resp, cur>>
histVars == <<nextSeq, consumed, enqAfterStop>>
\* the state of the session object
pmVars == <<running, stopCh, readings, dataFormat, readingsCh, handlerOpen,
            closeCalls, panicked, pc, resp, cur, nextSeq, consumed,
            enqAfterStop, lastRead, lastOp>>
\* the state outside the session object
decodeVars == <<data, out>>
scanVars == <<call, scanConfig, verbose, world, scanPc, portIdx, baudIdx, idIdx,
              passDevices, portDevices, result, probes, autoConfig>>
statVars == <<stats, fed>>
\* the state outside the session, the decoders and the scanner
newVars == <<newConfig, newResult>>
loadVars == <<loadInput, loadResult>>
callVars == <<callerOp, callerPc, stopChCloses>>
extraVars == <<statVars, newVars, loadVars, callVars>>
auxVars == <<decodeVars, scanVars, extraVars>>

(* ------------------------------ values -------------------------------- *)
Min(a, b) == IF a < b THEN a ELSE b

\* results, err of client.ReadHoldingRegisters
Responses == [err : {TRUE}, len : {0}] \cup [err : {FALSE}, len : 0..MaxPayloadLen]

NoResp == [err |-> FALSE, len |-> 0]
NoReading == [seq |-> 0, Valid |-> FALSE, Error |-> <<>>, RawLen |-> 0]

\* ReadPressure without its check of len(results)
ReadPressureNoLen(r, f, n) ==
    IF r.err
    THEN [seq |-> n, Valid |-> FALSE, Error |-> <<"ReadFailed">>, RawLen |-> 0]
    ELSE IF f = DecimalFormat \/ f = FloatFormat
    THEN [seq |-> n, Valid |-> TRUE, Error |-> <<>>, RawLen |-> r.len]
    ELSE [seq |-> n, Valid |-> FALSE, Error |-> <<"UnknownFormat">>, RawLen |-> r.len]

\* pm.ReadPressure: the Reading built from the transaction's outcome r and
\* the session's data format f; the error text is kept as its leading token
ReadPressure(r, f, n) ==
    IF r.err
    THEN [seq |-> n, Valid |-> FALSE, Error |-> <<"ReadFailed">>, RawLen |-> 0]
    ELSE IF r.len # PayloadLen
    THEN [seq |-> n, Valid |-> FALSE, Error |-> <<"LengthError">>, RawLen |-> 0]
    ELSE IF f = DecimalFormat \/ f = FloatFormat
    THEN [seq |-> n, Valid |-> TRUE, Error |-> <<>>, RawLen |-> r.len]
    ELSE [seq |-> n, Valid |-> FALSE, Error |-> <<"UnknownFormat">>, RawLen |-> r.len]

Live(l) == pc[l] \notin {"unspawned", "exited"}
LiveLoops == {l \in LoopIds : Live(l)}
Spawned == {l \in LoopIds : pc[l] # "unspawned"}

(* ------------------------------ decoding ------------------------------ *)
\* the byte values a payload is drawn from: 0x00, 0x01, 0x3F, 0x50, 0x7F,
\* 0x80, 0xA0, 0xC0, 0xFF
Bytes == {0, 1, 63, 80, 127, 128, 160, 192, 255}
\* the 4-byte payloads of a well-formed response
Payloads == [1..PayloadLen -> Bytes]
NoPayload == [i \in 1..PayloadLen |-> 0]

Abs(x) == IF x < 0 THEN 0 - x ELSE x

\* a float64 the decoders return: "Tenths" is sig / 10, "Num" is
\* sig * 2^exp, "Inf" has its sign in sig
Tenths(n) == [kind |-> "Tenths", sig |-> n, exp |-> 0]
Zero == [kind |-> "Num", sig |-> 0, exp |-> 0]
NaN == [kind |-> "NaN", sig |-> 0, exp |-> 0]
Inf(s) == [kind |-> "Inf", sig |-> s, exp |-> 0]
IsNaN(p) == p.kind = "NaN"
IsInf(p) == p.kind = "Inf"

\* int32(binary.BigEndian.Uint32(d)): d[1] is data[0]
Int32(d) ==
    (IF d[1] >= 128 THEN d[1] - 256 ELSE d[1]) * 16777216
        + d[2] * 65536 + d[3] * 256 + d[4]

\* (uint32(value) & 0x80000000) == 0x80000000
SignBit(d) == d[1] \div 128 = 1

\* a decimal decoder whose 0xFF branch reads a sign and a magnitude
parseDecimalFormatMagnitude(d) ==
    IF d[1] = 255 THEN Tenths(0 - (Int32(d) + 2147483647 + 1))
    ELSE Tenths(Int32(d))

\* pm.parseDecimalFormat: the 0xFF branch, the sign-bit branch, the
\* positive branch
parseDecimalFormat(d) ==
    IF d[1] = 255 THEN Tenths(Int32(d))
    ELSE IF SignBit(d) THEN Tenths(Int32(d))
    ELSE Tenths(Int32(d))

\* parseDecimalFormatStatic
parseDecimalFormatStatic(d) ==
    IF d[1] = 255 \/ SignBit(d) THEN Tenths(Int32(d)) ELSE Tenths(Int32(d))

\* ieeeBytes: data[2], data[3], data[0], data[1]
IeeeBytes(d) == <<d[3], d[4], d[1], d[2]>>
\* (bits >> 23) & 0xFF of the reordered bytes
Exponent(d) == (IeeeBytes(d)[1] % 128) * 2 + (IeeeBytes(d)[2] \div 128)
\* bits & 0x7FFFFF of the reordered bytes
Mantissa(d) ==
    (IeeeBytes(d)[2] % 128) * 65536 + IeeeBytes(d)[3] * 256 + IeeeBytes(d)[4]
Sign(d) == IF IeeeBytes(d)[1] >= 128 THEN 0 - 1 ELSE 1

\* math.Float32frombits of the reordered bytes, widened to float64
Float32frombits(d) ==
    IF Exponent(d) = 255
    THEN IF Mantissa(d) = 0 THEN Inf(Sign(d)) ELSE NaN
    ELSE IF Exponent(d) = 0
    THEN IF Mantissa(d) = 0 THEN Zero
         ELSE [kind |-> "Num", sig |-> Sign(d) * Mantissa(d), exp |-> 0 - 149]
    ELSE [kind |-> "Num", sig |-> Sign(d) * (8388608 + Mantissa(d)),
          exp |-> Exponent(d) - 150]

\* pm.parseFloatFormat
parseFloatFormat(d) == Float32frombits(d)

\* parseFloatFormatStatic: 0 for a NaN or an infinity
parseFloatFormatStatic(d) ==
    IF IsNaN(Float32frombits(d)) \/ IsInf(Float32frombits(d)) THEN Zero
    ELSE Float32frombits(d)

\* value >= -10000 && value <= 10000
InRange(p) ==
    IF p.kind = "Tenths" THEN p.sig >= 0 - 100000 /\ p.sig <= 100000
    ELSE IF p.kind # "Num" THEN FALSE
    ELSE IF p.sig = 0 \/ p.exp <= 0 - 24 THEN TRUE
    ELSE IF p.exp < 0
    THEN \/ Abs(p.sig) \div 2^(0 - p.exp) < 10000
         \/ Abs(p.sig) \div 2^(0 - p.exp) = 10000 /\ Abs(p.sig) % 2^(0 - p.exp) = 0
    ELSE p.exp <= 13 /\ Abs(p.sig) <= 10000 \div 2^(p.exp)

\* value == float64(int(value*10))/10. The float64 n/10.0 of every int32 n
\* passes. A float32 passes when ten times it is an integer below 2^63: the
\* products and the quotient are exact there, and from 2^63 on no result
\* of the conversion to int gives the value back
OneDecimal(p) ==
    IF p.kind = "Tenths" THEN TRUE
    ELSE IF p.kind # "Num" THEN FALSE
    ELSE IF p.sig = 0 THEN TRUE
    ELSE IF p.exp < 0
    THEN p.exp >= 0 - 28 /\ (Abs(p.sig) * 10) % 2^(0 - p.exp) = 0
    ELSE IF p.exp <= 35 THEN TRUE
    ELSE p.exp <= 62 /\ Abs(p.sig) * 10 < 2^(63 - p.exp)

\* calculateDecimalConfidence with its first weight at 0.8
calculateDecimalConfidenceHeavy(p, d) ==
    (IF InRange(p) THEN 8 ELSE 0)
        + (IF OneDecimal(p) THEN 3 ELSE 0)
        + (IF d[1] # 255 /\ (d[1] < 128 \/ d[1] = 255) THEN 2 ELSE 0)

\* calculateDecimalConfidence, in tenths: 0.5, 0.3, 0.2
calculateDecimalConfidence(p, d) ==
    (IF InRange(p) THEN 5 ELSE 0)
        + (IF OneDecimal(p) THEN 3 ELSE 0)
        + (IF d[1] # 255 /\ (d[1] < 128 \/ d[1] = 255) THEN 2 ELSE 0)

\* calculateFloatConfidence, in tenths: 0.4, 0.3, 0.3
calculateFloatConfidence(p, d) ==
    (IF InRange(p) /\ ~IsNaN(p) /\ ~IsInf(p) THEN 4 ELSE 0)
        + (IF ~OneDecimal(p) THEN 3 ELSE 0)
        + (IF Exponent(d) > 0 /\ Exponent(d) < 255 THEN 3 ELSE 0)

\* s.detectDataFormat
detectDataFormat(d) ==
    LET decimalConfidence ==
            calculateDecimalConfidence(parseDecimalFormatStatic(d), d)
        floatConfidence ==
            calculateFloatConfidence(parseFloatFormatStatic(d), d)
    IN  IF decimalConfidence > floatConfidence
        THEN [format |-> DecimalFormat, confidence |-> decimalConfidence]
        ELSE [format |-> FloatFormat, confidence |-> floatConfidence]

\* no decoder or classifier call was made
NoOut == [op |-> "none"]
DecodeIdle == data = NoPayload /\ out = NoOut

(* ------------------------------ probing ------------------------------- *)
\* what the transport does for one candidate: conn is handler.Connect()
\* succeeding, err and len are the err and len(results) of
\* ReadHoldingRegisters, data is results when it has PayloadLen bytes
Outcome(c, e, n, d) == [conn |-> c, err |-> e, len |-> n, data |-> d]
ConnectFailed == Outcome(FALSE, FALSE, 0, NoPayload)
ReadFailed == Outcome(TRUE, TRUE, 0, NoPayload)
Answered(d) == Outcome(TRUE, FALSE, PayloadLen, d)

\* the PressureReading testDevice builds for the format it detected
ProbeReading(d) ==
    [Valid |-> TRUE,
     Pressure |-> IF detectDataFormat(d).format = DecimalFormat
                  THEN parseDecimalFormatStatic(d)
                  ELSE parseFloatFormatStatic(d)]

\* the DeviceInfo testDevice starts from; LastReading is <<>> for nil and
\* baud_rate is Properties["baud_rate"], 0 when absent
NewDeviceInfo(port, slaveID) ==
    [Device |-> port, SlaveID |-> slaveID, Responsive |-> FALSE,
     Error |-> <<>>, DataFormat |-> DecimalFormat, LastReading |-> <<>>,
     baud_rate |-> 0]

\* testDevice answering Responsive for a payload of any length
testDeviceAnyLen(port, baudRate, slaveID, auto, o) ==
    IF ~o.conn
    THEN [NewDeviceInfo(port, slaveID) EXCEPT !.Error = <<"ConnectFailed">>]
    ELSE IF o.err
    THEN [NewDeviceInfo(port, slaveID) EXCEPT !.Error = <<"ReadFailed">>]
    ELSE IF auto
    THEN [NewDeviceInfo(port, slaveID) EXCEPT
              !.Responsive = TRUE, !.baud_rate = baudRate,
              !.DataFormat = detectDataFormat(o.data).format,
              !.LastReading = <<ProbeReading(o.data)>>]
    ELSE [NewDeviceInfo(port, slaveID) EXCEPT
              !.Responsive = TRUE, !.baud_rate = baudRate]

\* s.testDevice for config.AutoDetectFormat = auto, the transport doing o
testDevice(port, baudRate, slaveID, auto, o) ==
    IF ~o.conn
    THEN [NewDeviceInfo(port, slaveID) EXCEPT !.Error = <<"ConnectFailed">>]
    ELSE IF o.err
    THEN [NewDeviceInfo(port, slaveID) EXCEPT !.Error = <<"ReadFailed">>]
    ELSE IF o.len = PayloadLen
    THEN IF auto
         THEN [NewDeviceInfo(port, slaveID) EXCEPT
                   !.Responsive = TRUE, !.baud_rate = baudRate,
                   !.DataFormat = detectDataFormat(o.data).format,
                   !.LastReading = <<ProbeReading(o.data)>>]
         ELSE [NewDeviceInfo(port, slaveID) EXCEPT
                   !.Responsive = TRUE, !.baud_rate = baudRate]
    ELSE NewDeviceInfo(port, slaveID)

\* testDevice leaving the transport open when the read fails
testTransportLeak(o) ==
    IF ~o.conn THEN <<"ConnectError">>
    ELSE IF o.err THEN <<"Connect", "ReadHoldingRegisters">>
    ELSE <<"Connect", "ReadHoldingRegisters", "Close">>

\* what testDevice does to its transport, in order: a Connect that fails
\* opens nothing, one that succeeds is followed by the read and by the
\* deferred handler.Close() on every return
testTransport(o) ==
    IF ~o.conn THEN <<"ConnectError">>
    ELSE <<"Connect", "ReadHoldingRegisters", "Close">>

(* ------------------------------ scanning ------------------------------ *)
\* the serial ports, baud rates and station IDs scans are made of
Ports == <<"P1", "P2">>
BaudRateList == <<9600, 19200>>
SlaveIDList == <<1, 2>>
\* the non-empty prefixes of a list
Prefixes(s) == {SubSeq(s, 1, n) : n \in 1..Len(s)}

\* GetQuickScanConfig, the serial ports resolved to ports
GetQuickScanConfig(ports) ==
    [SerialPorts |-> ports, SlaveIDs |-> <<22, 1, 2, 3, 4, 5>>,
     BaudRates |-> <<9600>>, MaxDevices |-> 10,
     AutoDetectFormat |-> TRUE, SkipUnresponsive |-> TRUE]

\* the configs ScanDevices is called with
ScanConfigs ==
    {c \in [SerialPorts : Prefixes(Ports), SlaveIDs : Prefixes(SlaveIDList),
            BaudRates : Prefixes(BaudRateList), MaxDevices : 1..MaxCap,
            AutoDetectFormat : BOOLEAN, SkipUnresponsive : BOOLEAN] :
        Len(c.SerialPorts) * Len(c.BaudRates) * Len(c.SlaveIDs) <= MaxProbes}

\* the search space of a config, and its order: ports, then baud rates,
\* then station IDs
Candidates(c) ==
    {<<c.SerialPorts[i], c.BaudRates[j], c.SlaveIDs[k]>> :
        i \in 1..Len(c.SerialPorts), j \in 1..Len(c.BaudRates),
        k \in 1..Len(c.SlaveIDs)}

\* the payloads a device answers: 0.1 Pa in Decimal, 1.25 Pa in Float
ScanPayloads == {<<0, 0, 0, 1>>, <<0, 0, 63, 160>>}
\* what the transport does at a candidate no device answers at
NoAnswers ==
    {ConnectFailed, ReadFailed, Outcome(TRUE, FALSE, PayloadLen - 2, NoPayload),
     Outcome(TRUE, FALSE, MaxPayloadLen, NoPayload)}
Answers == {Answered(d) : d \in ScanPayloads}

NoResult == [Devices |-> <<>>, TotalTested |-> 0, Successful |-> 0]
NoAutoConfig == [err |-> FALSE, Device |-> "", SlaveID |-> 0, DataFormat |-> 0]

\* no scan is made
ScanIdle ==
    /\ call = "none"
    /\ scanConfig = GetQuickScanConfig(<<>>)
    /\ verbose = FALSE
    /\ world = {}
    /\ scanPc = "idle"
    /\ portIdx = 1 /\ baudIdx = 1 /\ idIdx = 1
    /\ passDevices = <<>> /\ portDevices = <<>>
    /\ result = NoResult
    /\ probes = <<>>
    /\ autoConfig = NoAutoConfig

(* ----------------------------- statistics ----------------------------- *)
RECURSIVE GCD(_, _)
GCD(a, b) == IF b = 0 THEN a ELSE GCD(b, a % b)

\* the float64 values of Statistics as fractions <<numerator, denominator>>
\* in lowest terms, the denominator positive
Frac(n, d) ==
    LET g == GCD(Abs(n), Abs(d))
        sgn == IF d < 0 THEN 0 - 1 ELSE 1
    IN  <<sgn * (n \div g), sgn * (d \div g)>>
FracOf(n) == <<n, 1>>
FracAdd(x, y) == Frac(x[1] * y[2] + y[1] * x[2], x[2] * y[2])
FracSub(x, y) == Frac(x[1] * y[2] - y[1] * x[2], x[2] * y[2])
FracMul(x, y) == Frac(x[1] * y[1], x[2] * y[2])
FracDiv(x, n) == Frac(x[1], x[2] * n)
FracLess(x, y) == x[1] * y[2] < y[1] * x[2]

\* the values fed to Update
StatValues == {FracOf(0 - 10), FracOf(10), FracOf(20), FracOf(30), FracOf(40)}

\* Statistics{}
ZeroStatistics ==
    [Count |-> 0, Min |-> FracOf(0), Max |-> FracOf(0), Mean |-> FracOf(0),
     StdDev |-> FracOf(0)]

\* Update dividing the step of the mean by Count instead of Count + 1
UpdateByCount(s, value) ==
    LET mean == IF s.Count = 0 THEN value
                ELSE FracAdd(s.Mean, FracDiv(FracSub(value, s.Mean), s.Count))
        sum == IF s.Count = 0 THEN s.StdDev
               ELSE FracAdd(s.StdDev,
                            FracMul(FracSub(value, s.Mean), FracSub(value, mean)))
    IN  [Count |-> s.Count + 1,
         Min |-> IF s.Count = 0 \/ FracLess(value, s.Min) THEN value ELSE s.Min,
         Max |-> IF s.Count = 0 \/ FracLess(s.Max, value) THEN value ELSE s.Max,
         Mean |-> mean,
         StdDev |-> IF s.Count + 1 > 1 THEN FracDiv(sum, s.Count) ELSE sum]

\* (s *Statistics) Update(value)
Update(s, value) ==
    LET mean == IF s.Count = 0 THEN value
                ELSE FracAdd(s.Mean, FracDiv(FracSub(value, s.Mean), s.Count + 1))
        sum == IF s.Count = 0 THEN s.StdDev
               ELSE FracAdd(s.StdDev,
                            FracMul(FracSub(value, s.Mean), FracSub(value, mean)))
    IN  [Count |-> s.Count + 1,
         Min |-> IF s.Count = 0 \/ FracLess(value, s.Min) THEN value ELSE s.Min,
         Max |-> IF s.Count = 0 \/ FracLess(s.Max, value) THEN value ELSE s.Max,
         Mean |-> mean,
         StdDev |-> IF s.Count + 1 > 1 THEN FracDiv(sum, s.Count) ELSE sum]

(* ------------------------ session construction ------------------------ *)
\* config.SlaveID, a byte
SlaveIDs == {0, 1, 22, 247, 248}
\* config.ReadInterval and the interval of Start, in milliseconds
Intervals == {0, 50, MinReadInterval, 1000}
NewConfigs == [SlaveID : SlaveIDs, ReadInterval : Intervals, connect : BOOLEAN]

\* NewPressureMeter was not called
NoSession ==
    [state |-> "none", err |-> <<>>, connected |-> FALSE, started |-> FALSE,
     interval |-> 0]

\* NewPressureMeter(config): the check of SlaveID, handler.Connect(), the
\* session; the ReadInterval it defaults is in its own copy of config
NewPressureMeter(config) ==
    IF config.SlaveID < 1 \/ config.SlaveID > 247
    THEN [NoSession EXCEPT !.state = "error", !.err = <<"InvalidSlaveID">>]
    ELSE IF ~config.connect
    THEN [NoSession EXCEPT !.state = "error", !.err = <<"ConnectFailed">>]
    ELSE [NoSession EXCEPT !.state = "created", !.connected = TRUE]

NewIdle ==
    /\ newConfig = [SlaveID |-> 0, ReadInterval |-> 0, connect |-> FALSE]
    /\ newResult = NoSession

(* -------------------------- loading a Config -------------------------- *)
\* an absent value is <<>>, a present one <<v>>
Opt(S) == {<<>>} \cup {<<v>> : v \in S}

HexDigits ==
    <<"0", "1", "2", "3", "4", "5", "6", "7", "8", "9", "a", "b", "c", "d",
      "e", "f">>
\* the value of a digit, 16 for a character that is none
Digit(c) ==
    IF \E i \in 1..16 : HexDigits[i] = c
    THEN (CHOOSE i \in 1..16 : HexDigits[i] = c) - 1
    ELSE 16

RECURSIVE ParseDigits(_, _, _)
\* the digits of s read in a base from the value acc on, -1 for a
\* character that is no digit of the base or a value over 8 bits
ParseDigits(s, base, acc) ==
    IF s = <<>> THEN acc
    ELSE IF Digit(Head(s)) >= base \/ acc * base + Digit(Head(s)) > 255 THEN 0 - 1
    ELSE ParseDigits(Tail(s), base, acc * base + Digit(Head(s)))

\* strconv.ParseUint(s, base, 8) for digits without a prefix
ParseUint(s, base) ==
    IF s = <<>> \/ ParseDigits(s, base, 0) < 0 THEN <<>>
    ELSE <<ParseDigits(s, base, 0)>>

HasHexPrefix(s) == Len(s) >= 2 /\ s[1] = "0" /\ s[2] = "x"

\* parseSlaveID(s): hexadecimal after 0x, else decimal, else an error
parseSlaveID(s) ==
    IF HasHexPrefix(s) /\ ParseUint(SubSeq(s, 3, Len(s)), 16) # <<>>
    THEN ParseUint(SubSeq(s, 3, Len(s)), 16)
    ELSE ParseUint(s, 10)

\* parseDataFormat(s): the format, or Decimal and an error
parseDataFormat(s) ==
    CASE s \in {"decimal", "dec", "0"} -> [format |-> DecimalFormat, ok |-> TRUE]
      [] s \in {"float", "floating", "1"} -> [format |-> FloatFormat, ok |-> TRUE]
      [] OTHER -> [format |-> DecimalFormat, ok |-> FALSE]

\* time.ParseDuration(s) in milliseconds
ParseDuration(s) ==
    CASE s = "3s" -> <<3000>>
      [] s = "50ms" -> <<50>>
      [] OTHER -> <<>>

\* the Config a file unmarshals to: a field the file lacks is zero
FileConfigs ==
    [Device : {"", "/dev/file"}, SlaveID : {0, 5}, ReadInterval : {0},
     DataFormat : {DecimalFormat, FloatFormat}]
\* PRESSURE_DEVICE, PRESSURE_SLAVE_ID, PRESSURE_READ_INTERVAL and
\* PRESSURE_DATA_FORMAT, "" when unset
Environments ==
    [Device : {"", "/dev/env"},
     SlaveID : {<<>>, <<"7">>, <<"0", "x", "1", "6">>, <<"3", "0", "0">>},
     ReadInterval : {"", "3s"},
     DataFormat : {"", "float", "decimal"}]
\* -device, -slave-id, -interval and -format where the command line gives
\* them
CommandLines ==
    [device : Opt({"/dev/flag"}), slaveID : Opt({9}),
     interval : Opt({50, 4000}), format : Opt({"float", "decimal"})]
\* the loader's useEnv and useFlags, the file found, the environment, the
\* command line, and whether flag.Parse has run
LoadInputs ==
    [useEnv : BOOLEAN, useFlags : BOOLEAN, file : Opt(FileConfigs),
     env : Environments, flags : CommandLines, parsed : BOOLEAN]

\* setDefaults(info)
setDefaults ==
    [Config |-> [Device |-> "/dev/ttyUSB0", SlaveID |-> 22,
                 ReadInterval |-> 1000, DataFormat |-> DecimalFormat],
     Source |-> [device |-> SourceDefault, slaveid |-> SourceDefault,
                 readinterval |-> SourceDefault, dataformat |-> SourceDefault]]

\* mergeConfig(info, source, sourceType): the nonzero fields, and DataFormat
\* always
mergeConfig(info, source, sourceType) ==
    LET a == IF source.Device # ""
             THEN [info EXCEPT !.Config.Device = source.Device,
                               !.Source.device = sourceType]
             ELSE info
        b == IF source.SlaveID # 0
             THEN [a EXCEPT !.Config.SlaveID = source.SlaveID,
                            !.Source.slaveid = sourceType]
             ELSE a
        c == IF source.ReadInterval # 0
             THEN [b EXCEPT !.Config.ReadInterval = source.ReadInterval,
                            !.Source.readinterval = sourceType]
             ELSE b
    IN  [c EXCEPT !.Config.DataFormat = source.DataFormat,
                  !.Source.dataformat = sourceType]

\* loadFromFile(info): the file found is merged, none leaves info alone
loadFromFile(info, file) ==
    IF file = <<>> THEN info ELSE mergeConfig(info, file[1], SourceFile)

\* loadFromEnv(info): each variable that is set and parses
loadFromEnv(info, env) ==
    LET a == IF env.Device # ""
             THEN [info EXCEPT !.Config.Device = env.Device,
                               !.Source.device = SourceEnv]
             ELSE info
        b == IF env.SlaveID # <<>> /\ parseSlaveID(env.SlaveID) # <<>>
             THEN [a EXCEPT !.Config.SlaveID = parseSlaveID(env.SlaveID)[1],
                            !.Source.slaveid = SourceEnv]
             ELSE a
        c == IF env.ReadInterval # "" /\ ParseDuration(env.ReadInterval) # <<>>
             THEN [b EXCEPT !.Config.ReadInterval = ParseDuration(env.ReadInterval)[1],
                            !.Source.readinterval = SourceEnv]
             ELSE b
    IN  IF env.DataFormat # "" /\ parseDataFormat(env.DataFormat).ok
        THEN [c EXCEPT !.Config.DataFormat = parseDataFormat(env.DataFormat).format,
                       !.Source.dataformat = SourceEnv]
        ELSE c

\* the value of a flag after flag.Parse: the one given, else its default
FlagValue(given, default) == IF given = <<>> THEN default ELSE given[1]

\* loadFromFlags(info): nothing once flag.Parse has run; else the flags are
\* defined with the values resolved so far as defaults, -format with
\* "decimal", parsed, and each value that differs from info is taken
loadFromFlags(info, flags, parsed) ==
    IF parsed THEN info
    ELSE
    LET device == FlagValue(flags.device, info.Config.Device)
        slaveID == FlagValue(flags.slaveID, info.Config.SlaveID)
        interval == FlagValue(flags.interval, info.Config.ReadInterval)
        format == parseDataFormat(FlagValue(flags.format, "decimal"))
        a == IF device # info.Config.Device
             THEN [info EXCEPT !.Config.Device = device,
                               !.Source.device = SourceFlags]
             ELSE info
        b == IF slaveID % 256 # info.Config.SlaveID
             THEN [a EXCEPT !.Config.SlaveID = slaveID % 256,
                            !.Source.slaveid = SourceFlags]
             ELSE a
        c == IF interval # info.Config.ReadInterval
             THEN [b EXCEPT !.Config.ReadInterval = interval,
                            !.Source.readinterval = SourceFlags]
             ELSE b
    IN  IF format.ok /\ format.format # info.Config.DataFormat
        THEN [c EXCEPT !.Config.DataFormat = format.format,
                       !.Source.dataformat = SourceFlags]
        ELSE c

\* validateConfig(config): <<>> or the error
validateConfig(config) ==
    IF config.Device = "" THEN <<"EmptyDevice">>
    ELSE IF config.SlaveID < 1 \/ config.SlaveID > 247 THEN <<"InvalidSlaveID">>
    ELSE IF config.ReadInterval < MinReadInterval THEN <<"InvalidInterval">>
    ELSE <<>>

\* LoadConfigWithSource(): defaults, file, environment, command line, then
\* the validation; info is nil when the validation fails
LoadConfigWithSource(in) ==
    LET a == loadFromFile(setDefaults, in.file)
        b == IF in.useEnv THEN loadFromEnv(a, in.env) ELSE a
        c == IF in.useFlags THEN loadFromFlags(b, in.flags, in.parsed) ELSE b
    IN  IF validateConfig(c.Config) # <<>>
        THEN [state |-> "error", info |-> <<>>, err |-> validateConfig(c.Config)]
        ELSE [state |-> "loaded", info |-> <<c>>, err |-> <<>>]

\* LoadConfigWithSource was not called
NotLoaded == [state |-> "none", info |-> <<>>, err |-> <<>>]

LoadIdle ==
    /\ loadInput = [useEnv |-> TRUE, useFlags |-> TRUE, file |-> <<>>,
                    env |-> [Device |-> "", SlaveID |-> <<>>, ReadInterval |-> "",
                             DataFormat |-> ""],
                    flags |-> [device |-> <<>>, slaveID |-> <<>>,
                               interval |-> <<>>, format |-> <<>>],
                    parsed |-> FALSE]
    /\ loadResult = NotLoaded

\* no goroutine is inside Stop or Close
CallIdle ==
    /\ callerOp = [t \in Callers |-> "none"]
    /\ callerPc = [t \in Callers |-> "idle"]
    /\ stopChCloses = 0

\* no Statistics value is in use
StatIdle == stats = ZeroStatistics /\ fed = <<>>
ExtraIdle == StatIdle /\ NewIdle /\ LoadIdle /\ CallIdle

(* --------------------------- construction ----------------------------- *)
\* NewPressureMeter returned a session for config.DataFormat = f
New(f) ==
    /\ running = FALSE
    /\ stopCh = "open"
    /\ readings = <<>>
    /\ dataFormat = f
    /\ readingsCh = "open"
    /\ handlerOpen = TRUE
    /\ closeCalls = 0
    /\ panicked = FALSE
    /\ pc = [l \in LoopIds |-> "unspawned"]
    /\ resp = [l \in LoopIds |-> NoResp]
    /\ cur = [l \in LoopIds |-> NoReading]
    /\ nextSeq = 1
    /\ consumed = FALSE
    /\ enqAfterStop = 0
    /\ lastRead = [resp |-> NoResp, fmt |-> f, reading |-> NoReading]
    /\ lastOp = "New"

\* the monitoring session: config.DataFormat at its zero value
Init == New(DecimalFormat) /\ DecodeIdle /\ ScanIdle /\ ExtraIdle

(* ------------------------- session operations ------------------------- *)
\* Start without its check of pm.running
StartAlways ==
    /\ ~panicked
    /\ UNCHANGED auxVars
    /\ \E l \in LoopIds :
         /\ pc[l] = "unspawned"
         /\ \A k \in LoopIds : k < l => pc[k] # "unspawned"
         /\ pc' = [pc EXCEPT ![l] = "select"]
    /\ running' = TRUE
    /\ lastOp' = IF running THEN "StartNoop" ELSE "Start"
    /\ UNCHANGED <<stopCh, readings, dataFormat, readingsCh, handlerOpen,
                   closeCalls, panicked, resp, cur, lastRead>>
    /\ UNCHANGED histVars

\* pm.Start: no-op when running, else set running and spawn the goroutine
Start ==
    /\ ~panicked
    /\ UNCHANGED auxVars
    /\ IF running
       THEN /\ lastOp' = "StartNoop"
            /\ UNCHANGED <<running, pc>>
       ELSE /\ \E l \in LoopIds :
                 /\ pc[l] = "unspawned"
                 /\ \A k \in LoopIds : k < l => pc[k] # "unspawned"
                 /\ pc' = [pc EXCEPT ![l] = "select"]
            /\ running' = TRUE
            /\ lastOp' = "Start"
    /\ UNCHANGED <<stopCh, readings, dataFormat, readingsCh, handlerOpen,
                   closeCalls, panicked, resp, cur, lastRead>>
    /\ UNCHANGED histVars

\* Stop without its check of pm.running
StopBodyAlways ==
    /\ running' = FALSE
    /\ IF stopCh = "closed"
       THEN panicked' = TRUE /\ UNCHANGED stopCh
       ELSE stopCh' = "closed" /\ UNCHANGED panicked

\* the body of pm.Stop as a relation on running, stopCh, panicked:
\* close(pm.stopCh) of a closed channel is a runtime panic
StopBody ==
    IF ~running
    THEN UNCHANGED <<running, stopCh, panicked>>
    ELSE /\ running' = FALSE
         /\ IF stopCh = "closed"
            THEN panicked' = TRUE /\ UNCHANGED stopCh
            ELSE stopCh' = "closed" /\ UNCHANGED panicked

\* pm.Stop
Stop ==
    /\ ~panicked
    /\ UNCHANGED auxVars
    /\ StopBody
    /\ lastOp' = IF ~running THEN "StopNoop"
                 ELSE IF stopCh = "closed" THEN "StopPanic" ELSE "Stop"
    /\ UNCHANGED <<readings, dataFormat, readingsCh, handlerOpen, closeCalls,
                   lastRead>>
    /\ UNCHANGED loopVars
    /\ UNCHANGED histVars

\* pm.Close: Stop, then handler.Close() whenever pm.handler is not nil; the
\* handler field is never reset, so every Close reaches handler.Close()
Close ==
    /\ ~panicked
    /\ UNCHANGED auxVars
    /\ closeCalls < MaxCloses
    /\ StopBody
    /\ IF panicked'
       THEN /\ lastOp' = "ClosePanic"
            /\ UNCHANGED <<handlerOpen, closeCalls>>
       ELSE /\ handlerOpen' = FALSE
            /\ closeCalls' = closeCalls + 1
            /\ lastOp' = IF closeCalls = 0 THEN "Close" ELSE "CloseAgain"
    /\ UNCHANGED <<readings, dataFormat, readingsCh, lastRead>>
    /\ UNCHANGED loopVars
    /\ UNCHANGED histVars

(* ------------------------- synchronous reads -------------------------- *)
\* pm.SetDataFormat
SetDataFormat(f) ==
    /\ ~panicked
    /\ UNCHANGED auxVars
    /\ f # dataFormat
    /\ dataFormat' = f
    /\ lastOp' = "SetDataFormat"
    /\ UNCHANGED <<running, stopCh, readings, readingsCh, handlerOpen,
                   closeCalls, panicked, lastRead>>
    /\ UNCHANGED loopVars
    /\ UNCHANGED histVars

\* a ReadPressure call made by the caller itself, the transaction returning r
ReadOnce(r) ==
    /\ ~panicked
    /\ UNCHANGED auxVars
    /\ nextSeq <= MaxTicks
    /\ lastRead' = [resp |-> r, fmt |-> dataFormat,
                    reading |-> ReadPressure(r, dataFormat, nextSeq)]
    /\ nextSeq' = nextSeq + 1
    /\ UNCHANGED <<running, stopCh, readings, dataFormat, readingsCh,
                   handlerOpen, closeCalls, panicked, consumed, enqAfterStop>>
    /\ UNCHANGED loopVars

\* pm.ReadPressure called for a one-shot read
ReadPressureCall(r) ==
    /\ ReadOnce(r)
    /\ lastOp' = "ReadPressure"

\* pm.TestConnection: one ReadPressure, an error when it is not Valid
TestConnection(r) ==
    /\ ReadOnce(r)
    /\ lastOp' = IF lastRead'.reading.Valid THEN "TestConnectionOk"
                 ELSE "TestConnectionFailed"

(* ------------------------ the polling goroutine ----------------------- *)
\* select, case <-pm.stopCh: return (the deferred ticker.Stop runs)
LoopStop(l) ==
    /\ ~panicked
    /\ UNCHANGED auxVars
    /\ pc[l] = "select"
    /\ stopCh = "closed"
    /\ pc' = [pc EXCEPT ![l] = "exited"]
    /\ UNCHANGED <<resp, cur, readings, lastOp>>
    /\ UNCHANGED sessionVars
    /\ UNCHANGED histVars

\* select, case <-ticker.C: a tick is there (the ticker fires at any time,
\* also while the goroutine is busy: ticker.C buffers one tick); enter
\* ReadPressure and send the request
LoopTick(l) ==
    /\ ~panicked
    /\ UNCHANGED auxVars
    /\ pc[l] = "select"
    /\ nextSeq <= MaxTicks
    /\ pc' = [pc EXCEPT ![l] = "read"]
    /\ UNCHANGED <<resp, cur, readings, lastOp>>
    /\ UNCHANGED sessionVars
    /\ UNCHANGED histVars

\* ReadHoldingRegisters returns r and ReadPressure builds the Reading
LoopRead(l, r) ==
    /\ ~panicked
    /\ UNCHANGED auxVars
    /\ pc[l] = "read"
    /\ resp' = [resp EXCEPT ![l] = r]
    /\ cur' = [cur EXCEPT ![l] = ReadPressure(r, dataFormat, nextSeq)]
    /\ nextSeq' = nextSeq + 1
    /\ pc' = [pc EXCEPT ![l] = "trySend"]
    /\ UNCHANGED <<readings, lastOp, consumed, enqAfterStop>>
    /\ UNCHANGED sessionVars

\* the goroutine is back at its select
AtSelect(l) ==
    /\ pc' = [pc EXCEPT ![l] = "select"]
    /\ resp' = [resp EXCEPT ![l] = NoResp]
    /\ cur' = [cur EXCEPT ![l] = NoReading]

\* a Reading enters the channel
Enqueue(l) ==
    /\ readings' = Append(readings, cur[l])
    /\ enqAfterStop' = IF stopCh = "closed" THEN Min(enqAfterStop + 1, 2)
                       ELSE enqAfterStop

\* a first send that does not look at the room left
LoopTrySendAlways(l) ==
    /\ ~panicked
    /\ UNCHANGED auxVars
    /\ pc[l] = "trySend"
    /\ Enqueue(l)
    /\ AtSelect(l)
    /\ UNCHANGED <<lastOp, nextSeq, consumed>>
    /\ UNCHANGED sessionVars

\* select { case pm.readings <- reading: ... default: ... }
LoopTrySend(l) ==
    /\ ~panicked
    /\ UNCHANGED auxVars
    /\ pc[l] = "trySend"
    /\ IF Len(readings) < Capacity
       THEN Enqueue(l) /\ AtSelect(l)
       ELSE /\ pc' = [pc EXCEPT ![l] = "evict"]
            /\ resp' = [resp EXCEPT ![l] = NoResp]
            /\ UNCHANGED <<cur, readings, enqAfterStop>>
    /\ UNCHANGED <<lastOp, nextSeq, consumed>>
    /\ UNCHANGED sessionVars

\* an eviction that removes the newest queued Reading
LoopEvictNewest(l) ==
    /\ ~panicked
    /\ UNCHANGED auxVars
    /\ pc[l] = "evict"
    /\ readings' = IF Len(readings) > 0
                   THEN SubSeq(readings, 1, Len(readings) - 1) ELSE readings
    /\ pc' = [pc EXCEPT ![l] = "send"]
    /\ UNCHANGED <<resp, cur, lastOp>>
    /\ UNCHANGED sessionVars
    /\ UNCHANGED histVars

\* an eviction that removes nothing
LoopEvictNone(l) ==
    /\ ~panicked
    /\ UNCHANGED auxVars
    /\ pc[l] = "evict"
    /\ pc' = [pc EXCEPT ![l] = "send"]
    /\ UNCHANGED <<resp, cur, readings, lastOp>>
    /\ UNCHANGED sessionVars
    /\ UNCHANGED histVars

\* select { case <-pm.readings: default: }
LoopEvict(l) ==
    /\ ~panicked
    /\ UNCHANGED auxVars
    /\ pc[l] = "evict"
    /\ readings' = IF Len(readings) > 0 THEN Tail(readings) ELSE readings
    /\ pc' = [pc EXCEPT ![l] = "send"]
    /\ UNCHANGED <<resp, cur, lastOp>>
    /\ UNCHANGED sessionVars
    /\ UNCHANGED histVars

\* pm.readings <- reading: the blocking send, enabled when there is room
LoopSend(l) ==
    /\ ~panicked
    /\ UNCHANGED auxVars
    /\ pc[l] = "send"
    /\ Len(readings) < Capacity
    /\ Enqueue(l)
    /\ AtSelect(l)
    /\ UNCHANGED <<lastOp, nextSeq, consumed>>
    /\ UNCHANGED sessionVars

(* ----------------------------- consumers ------------------------------ *)
\* reading := <-pm.GetReadings(): the blocking receive of a consumer
Receive ==
    /\ ~panicked
    /\ UNCHANGED auxVars
    /\ Len(readings) > 0
    /\ readings' = Tail(readings)
    /\ consumed' = TRUE
    /\ UNCHANGED <<lastOp, nextSeq, enqAfterStop>>
    /\ UNCHANGED sessionVars
    /\ UNCHANGED loopVars

\* pm.GetLastReading: non-blocking receive, nil when the channel is empty
GetLastReading ==
    /\ ~panicked
    /\ UNCHANGED auxVars
    /\ IF Len(readings) > 0
       THEN readings' = Tail(readings) /\ consumed' = TRUE
       ELSE UNCHANGED <<readings, consumed>>
    /\ UNCHANGED <<lastOp, nextSeq, enqAfterStop>>
    /\ UNCHANGED sessionVars
    /\ UNCHANGED loopVars

\* pm.FlushReadings: non-blocking receives until the channel is empty; an
\* interleaved run of its loop reaches the states that this drain followed
\* by GetLastReading calls reaches
FlushReadings ==
    /\ ~panicked
    /\ UNCHANGED auxVars
    /\ readings' = <<>>
    /\ consumed' = (consumed \/ Len(readings) > 0)
    /\ UNCHANGED <<lastOp, nextSeq, enqAfterStop>>
    /\ UNCHANGED sessionVars
    /\ UNCHANGED loopVars

Next ==
    \/ Start
    \/ Stop
    \/ Close
    \/ \E l \in LoopIds : LoopStop(l)
    \/ \E l \in LoopIds : LoopTick(l)
    \/ \E l \in LoopIds, r \in Responses : LoopRead(l, r)
    \/ \E l \in LoopIds : LoopTrySend(l)
    \/ \E l \in LoopIds : LoopEvict(l)
    \/ \E l \in LoopIds : LoopSend(l)
    \/ Receive
    \/ GetLastReading
    \/ FlushReadings

\* the monitoring session: lifecycle, polling goroutine and consumers
Spec == Init /\ [][Next]_vars

\* the synchronous reads of a session under each data format
InitRead == (\E f \in DataFormats : New(f)) /\ DecodeIdle /\ ScanIdle /\ ExtraIdle

NextRead ==
    \/ \E f \in DataFormats : SetDataFormat(f)
    \/ \E r \in Responses : ReadPressureCall(r)
    \/ \E r \in Responses : TestConnection(r)

ReadSpec == InitRead /\ [][NextRead]_vars

(* ---------------------- decoders and classifier ----------------------- *)
\* pm.parseDecimalFormat and parseDecimalFormatStatic on the payload
DecodeDecimal ==
    /\ out = NoOut
    /\ out' = [op |-> "decimal", session |-> parseDecimalFormat(data),
               static |-> parseDecimalFormatStatic(data)]
    /\ UNCHANGED data
    /\ UNCHANGED pmVars
    /\ UNCHANGED scanVars
    /\ UNCHANGED extraVars

\* pm.parseFloatFormat and parseFloatFormatStatic on the payload
DecodeFloat ==
    /\ out = NoOut
    /\ out' = [op |-> "float", session |-> parseFloatFormat(data),
               static |-> parseFloatFormatStatic(data)]
    /\ UNCHANGED data
    /\ UNCHANGED pmVars
    /\ UNCHANGED scanVars
    /\ UNCHANGED extraVars

\* s.detectDataFormat on the payload
Classify ==
    /\ out = NoOut
    /\ out' = [op |-> "detect", format |-> detectDataFormat(data).format,
               confidence |-> detectDataFormat(data).confidence,
               decimalConfidence |->
                   calculateDecimalConfidence(parseDecimalFormatStatic(data), data),
               floatConfidence |->
                   calculateFloatConfidence(parseFloatFormatStatic(data), data)]
    /\ UNCHANGED data
    /\ UNCHANGED pmVars
    /\ UNCHANGED scanVars
    /\ UNCHANGED extraVars

\* pm.ReadPressure of a session under format f whose transaction returns
\* the payload: the Reading and the Pressure the switch on pm.dataFormat
\* stores in it
Poll(f) ==
    /\ out = NoOut
    /\ out' = [op |-> "poll", fmt |-> f,
               reading |-> ReadPressure([err |-> FALSE, len |-> PayloadLen], f, 1),
               Pressure |-> IF f = DecimalFormat THEN parseDecimalFormat(data)
                            ELSE IF f = FloatFormat THEN parseFloatFormat(data)
                            ELSE Zero]
    /\ UNCHANGED data
    /\ UNCHANGED pmVars
    /\ UNCHANGED scanVars
    /\ UNCHANGED extraVars

\* s.testDevice with AutoDetectFormat on a candidate that answers the payload
Probe ==
    /\ out = NoOut
    /\ out' = [op |-> "probe",
               device |-> testDevice("P1", 9600, 1, TRUE, Answered(data))]
    /\ UNCHANGED data
    /\ UNCHANGED pmVars
    /\ UNCHANGED scanVars
    /\ UNCHANGED extraVars

InitDecode ==
    New(DecimalFormat) /\ data \in Payloads /\ out = NoOut /\ ScanIdle /\ ExtraIdle

NextDecode ==
    \/ DecodeDecimal
    \/ DecodeFloat
    \/ Classify
    \/ \E f \in {DecimalFormat, FloatFormat} : Poll(f)
    \/ Probe

\* the decoders and the classifier applied to each payload
DecodeSpec == InitDecode /\ [][NextDecode]_vars

(* ----------------------------- the scanner ---------------------------- *)
\* hasResponsiveDevice answering for any device at all
hasResponsiveDeviceAny(devices) ==
    Len(devices) > 0

\* s.hasResponsiveDevice
hasResponsiveDevice(devices) ==
    \E i \in 1..Len(devices) : devices[i].Responsive

\* s.getResponsiveDevices
getResponsiveDevices(devices) ==
    SelectSeq(devices, LAMBDA d : d.Responsive)

\* the loop of ScanDevices over portDevices, counting only what it retains
AccumulateRetained(res, devices) ==
    LET kept == IF scanConfig.SkipUnresponsive
                THEN getResponsiveDevices(devices) ELSE devices
    IN  [Devices |-> res.Devices \o kept,
         TotalTested |-> res.TotalTested + Len(kept),
         Successful |-> res.Successful + Len(getResponsiveDevices(devices))]

\* the loop of ScanDevices over the portDevices that scanPort returned
Accumulate(res, devices) ==
    LET kept == IF scanConfig.SkipUnresponsive
                THEN getResponsiveDevices(devices) ELSE devices
    IN  [Devices |-> res.Devices \o kept,
         TotalTested |-> res.TotalTested + Len(devices),
         Successful |-> res.Successful + Len(getResponsiveDevices(devices))]

\* the candidate the scan is at
Candidate ==
    <<scanConfig.SerialPorts[portIdx], scanConfig.BaudRates[baudIdx],
      scanConfig.SlaveIDs[idIdx]>>

\* s.ScanDevices(config) is called and reaches its first testDevice
ScanDevices ==
    /\ call = "ScanDevices"
    /\ scanPc = "idle"
    /\ scanPc' = "scan"
    /\ UNCHANGED <<call, scanConfig, verbose, world, portIdx, baudIdx, idIdx,
                   passDevices, portDevices, result, probes, autoConfig>>
    /\ UNCHANGED pmVars
    /\ UNCHANGED decodeVars
    /\ UNCHANGED extraVars

\* s.AutoConfigure() is called: the quick config with MaxDevices = 1 goes
\* to ScanDevices
AutoConfigure ==
    /\ call = "AutoConfigure"
    /\ scanPc = "idle"
    /\ scanConfig' = [scanConfig EXCEPT !.MaxDevices = 1]
    /\ scanPc' = "scan"
    /\ UNCHANGED <<call, verbose, world, portIdx, baudIdx, idIdx,
                   passDevices, portDevices, result, probes, autoConfig>>
    /\ UNCHANGED pmVars
    /\ UNCHANGED decodeVars
    /\ UNCHANGED extraVars

\* one testDevice call, the transport doing o, and what the three loops do
\* up to the next testDevice call or the end of ScanDevices
TestDevice(o) ==
    /\ scanPc = "scan"
    /\ o \in (IF Candidate \in world THEN Answers ELSE NoAnswers)
    /\ LET device == testDevice(Candidate[1], Candidate[2], Candidate[3],
                                scanConfig.AutoDetectFormat, o)
           devices == Append(passDevices, device)
           ofPort == portDevices \o devices
           res == Accumulate(result, ofPort)
       IN  /\ probes' = Append(probes, [cand |-> Candidate, o |-> o,
                                        device |-> device,
                                        transport |-> testTransport(o)])
           /\ IF device.Responsive /\ verbose /\ device.LastReading = <<>>
              THEN \* device.LastReading.Pressure of a nil LastReading
                   /\ scanPc' = "panic"
                   /\ passDevices' = devices
                   /\ UNCHANGED <<portIdx, baudIdx, idIdx, portDevices, result>>
              ELSE IF Len(devices) < scanConfig.MaxDevices
                      /\ idIdx < Len(scanConfig.SlaveIDs)
              THEN \* the next slaveID
                   /\ idIdx' = idIdx + 1
                   /\ passDevices' = devices
                   /\ UNCHANGED <<scanPc, portIdx, baudIdx, portDevices, result>>
              ELSE IF ~hasResponsiveDevice(devices)
                      /\ baudIdx < Len(scanConfig.BaudRates)
              THEN \* scanPortWithBaudRate returns, the next baudRate
                   /\ baudIdx' = baudIdx + 1
                   /\ idIdx' = 1
                   /\ passDevices' = <<>>
                   /\ portDevices' = ofPort
                   /\ UNCHANGED <<scanPc, portIdx, result>>
              ELSE \* scanPort returns
                   /\ result' = res
                   /\ passDevices' = <<>>
                   /\ portDevices' = <<>>
                   /\ baudIdx' = 1
                   /\ idIdx' = 1
                   /\ IF Len(res.Devices) < scanConfig.MaxDevices
                         /\ portIdx < Len(scanConfig.SerialPorts)
                      THEN portIdx' = portIdx + 1 /\ UNCHANGED scanPc
                      ELSE scanPc' = "done" /\ UNCHANGED portIdx
    /\ UNCHANGED <<call, scanConfig, verbose, world, autoConfig>>
    /\ UNCHANGED pmVars
    /\ UNCHANGED decodeVars
    /\ UNCHANGED extraVars

\* AutoConfigure after ScanDevices returned: an error without a responsive
\* device, else the Config of the first one
AutoConfigureReturn ==
    /\ call = "AutoConfigure"
    /\ scanPc = "done"
    /\ scanPc' = "returned"
    /\ autoConfig' =
           IF Len(getResponsiveDevices(result.Devices)) = 0
           THEN [NoAutoConfig EXCEPT !.err = TRUE]
           ELSE [err |-> FALSE,
                 Device |-> getResponsiveDevices(result.Devices)[1].Device,
                 SlaveID |-> getResponsiveDevices(result.Devices)[1].SlaveID,
                 DataFormat |-> getResponsiveDevices(result.Devices)[1].DataFormat]
    /\ UNCHANGED <<call, scanConfig, verbose, world, portIdx, baudIdx, idIdx,
                   passDevices, portDevices, result, probes>>
    /\ UNCHANGED pmVars
    /\ UNCHANGED decodeVars
    /\ UNCHANGED extraVars

\* a scanner, a call and its config, and the devices on the bus
InitScan ==
    /\ New(DecimalFormat)
    /\ DecodeIdle
    /\ ExtraIdle
    /\ verbose \in BOOLEAN
    /\ \/ call = "ScanDevices" /\ scanConfig \in ScanConfigs
       \/ /\ call = "AutoConfigure"
          /\ \E ports \in Prefixes(Ports) : scanConfig = GetQuickScanConfig(ports)
    /\ world \in SUBSET Candidates(scanConfig)
    /\ scanPc = "idle"
    /\ portIdx = 1 /\ baudIdx = 1 /\ idIdx = 1
    /\ passDevices = <<>> /\ portDevices = <<>>
    /\ result = NoResult
    /\ probes = <<>>
    /\ autoConfig = NoAutoConfig

NextScan ==
    \/ ScanDevices
    \/ AutoConfigure
    \/ \E o \in Answers \cup NoAnswers : TestDevice(o)
    \/ AutoConfigureReturn

\* device discovery: ScanDevices and AutoConfigure
ScanSpec == InitScan /\ [][NextScan]_vars

(* ------------------------- running statistics ------------------------- *)
\* stats.Update(value)
StatUpdate(value) ==
    /\ Len(fed) < MaxUpdates
    /\ stats' = Update(stats, value)
    /\ fed' = Append(fed, value)
    /\ UNCHANGED <<pmVars, decodeVars, scanVars, newVars, loadVars, callVars>>

\* stats.Reset()
StatReset ==
    /\ stats' = ZeroStatistics
    /\ fed' = <<>>
    /\ UNCHANGED <<pmVars, decodeVars, scanVars, newVars, loadVars, callVars>>

InitStat ==
    /\ New(DecimalFormat) /\ DecodeIdle /\ ScanIdle
    /\ StatIdle /\ NewIdle /\ LoadIdle /\ CallIdle

NextStat ==
    \/ \E value \in StatValues : StatUpdate(value)
    \/ StatReset

\* a Statistics value being updated and reset
StatSpec == InitStat /\ [][NextStat]_vars

(* ----------------------- constructing a session ----------------------- *)
\* pm, err := NewPressureMeter(config)
NewPressureMeterCall ==
    /\ newResult.state = "none"
    /\ newResult' = NewPressureMeter(newConfig)
    /\ UNCHANGED newConfig
    /\ UNCHANGED <<pmVars, decodeVars, scanVars, statVars, loadVars, callVars>>

\* pm.Start(interval) on the session NewPressureMeter returned
StartCall(interval) ==
    /\ newResult.state = "created"
    /\ ~newResult.started
    /\ newResult' = [newResult EXCEPT !.started = TRUE, !.interval = interval]
    /\ UNCHANGED newConfig
    /\ UNCHANGED <<pmVars, decodeVars, scanVars, statVars, loadVars, callVars>>

InitNew ==
    /\ New(DecimalFormat) /\ DecodeIdle /\ ScanIdle
    /\ StatIdle /\ LoadIdle /\ CallIdle
    /\ newConfig \in NewConfigs
    /\ newResult = NoSession

NextNew ==
    \/ NewPressureMeterCall
    \/ \E interval \in {newConfig.ReadInterval} \cup Intervals : StartCall(interval)

\* NewPressureMeter on each Config, then Start
NewSpec == InitNew /\ [][NextNew]_vars

(* -------------------------- loading a Config -------------------------- *)
\* info, err := loader.LoadConfigWithSource(), which LoadConfig returns the
\* Config of
LoadConfig ==
    /\ loadResult.state = "none"
    /\ loadResult' = LoadConfigWithSource(loadInput)
    /\ UNCHANGED loadInput
    /\ UNCHANGED <<pmVars, decodeVars, scanVars, statVars, newVars, callVars>>

InitLoad ==
    /\ New(DecimalFormat) /\ DecodeIdle /\ ScanIdle
    /\ StatIdle /\ NewIdle /\ CallIdle
    /\ loadInput \in LoadInputs
    /\ loadResult = NotLoaded

NextLoad == LoadConfig

\* LoadConfig on each file, environment and command line
LoadSpec == InitLoad /\ [][NextLoad]_vars

(* ------------------------- concurrent callers ------------------------- *)
\* what the caller's actions leave alone
CallFrame ==
    /\ UNCHANGED <<readings, dataFormat, readingsCh, lastRead, lastOp>>
    /\ UNCHANGED loopVars
    /\ UNCHANGED histVars
    /\ UNCHANGED <<decodeVars, scanVars, statVars, newVars, loadVars>>

\* goroutine t calls pm.Stop() or pm.Close(), which begins with pm.Stop()
Call(t, op) ==
    /\ ~panicked
    /\ callerPc[t] = "idle"
    /\ callerOp' = [callerOp EXCEPT ![t] = op]
    /\ callerPc' = [callerPc EXCEPT ![t] = "check"]
    /\ UNCHANGED <<running, stopCh, panicked, handlerOpen, closeCalls,
                   stopChCloses>>
    /\ CallFrame

\* where t goes when its pm.Stop() returns
AfterStop(t) == IF callerOp[t] = "Close" THEN "handlerClose" ELSE "done"

\* Stop: if !pm.running { return }. The field has no lock: the read sees
\* the value stored last, or, once another goroutine has stored false
\* without synchronisation, still the true of before
CheckRunning(t) ==
    /\ ~panicked
    /\ callerPc[t] = "check"
    /\ \E seen \in {running} \cup
                   (IF \E u \in Callers \ {t} :
                           callerPc[u] \in {"close", "handlerClose", "done"}
                    THEN {TRUE} ELSE {}) :
           callerPc' = [callerPc EXCEPT
                            ![t] = IF ~seen THEN AfterStop(t) ELSE "set"]
    /\ UNCHANGED <<callerOp, running, stopCh, panicked, handlerOpen,
                   closeCalls, stopChCloses>>
    /\ CallFrame

\* Stop: pm.running = false
SetRunning(t) ==
    /\ ~panicked
    /\ callerPc[t] = "set"
    /\ running' = FALSE
    /\ callerPc' = [callerPc EXCEPT ![t] = "close"]
    /\ UNCHANGED <<callerOp, stopCh, panicked, handlerOpen, closeCalls,
                   stopChCloses>>
    /\ CallFrame

\* Stop: close(pm.stopCh), a runtime panic on a closed channel
CloseStopCh(t) ==
    /\ ~panicked
    /\ callerPc[t] = "close"
    /\ stopChCloses' = stopChCloses + 1
    /\ IF stopCh = "closed"
       THEN panicked' = TRUE /\ UNCHANGED <<stopCh, callerPc>>
       ELSE /\ stopCh' = "closed"
            /\ callerPc' = [callerPc EXCEPT ![t] = AfterStop(t)]
            /\ UNCHANGED panicked
    /\ UNCHANGED <<callerOp, running, handlerOpen, closeCalls>>
    /\ CallFrame

\* Close: pm.handler.Close()
HandlerClose(t) ==
    /\ ~panicked
    /\ callerPc[t] = "handlerClose"
    /\ handlerOpen' = FALSE
    /\ closeCalls' = closeCalls + 1
    /\ callerPc' = [callerPc EXCEPT ![t] = "done"]
    /\ UNCHANGED <<callerOp, running, stopCh, panicked, stopChCloses>>
    /\ CallFrame

\* a Running session: NewPressureMeter, then Start
InitCall ==
    /\ running = TRUE
    /\ stopCh = "open"
    /\ readings = <<>>
    /\ dataFormat = DecimalFormat
    /\ readingsCh = "open"
    /\ handlerOpen = TRUE
    /\ closeCalls = 0
    /\ panicked = FALSE
    /\ pc = [l \in LoopIds |-> IF l = 1 THEN "select" ELSE "unspawned"]
    /\ resp = [l \in LoopIds |-> NoResp]
    /\ cur = [l \in LoopIds |-> NoReading]
    /\ nextSeq = 1
    /\ consumed = FALSE
    /\ enqAfterStop = 0
    /\ lastRead = [resp |-> NoResp, fmt |-> DecimalFormat, reading |-> NoReading]
    /\ lastOp = "Start"
    /\ DecodeIdle /\ ScanIdle /\ ExtraIdle

NextCall ==
    \/ \E t \in Callers, op \in {"Stop", "Close"} : Call(t, op)
    \/ \E t \in Callers : CheckRunning(t)
    \/ \E t \in Callers : SetRunning(t)
    \/ \E t \in Callers : CloseStopCh(t)
    \/ \E t \in Callers : HandlerClose(t)
    \/ \E l \in LoopIds : LoopStop(l)

\* two goroutines calling Stop or Close on a Running session, and its
\* polling goroutine
CallSpec == InitCall /\ [][NextCall]_vars

(* ------------------------------ claims -------------------------------- *)
\* every goroutine is between two ticks
BetweenTicks == \A l \in LoopIds : pc[l] \in {"unspawned", "select", "read", "exited"}
\* the session was started at most once: one polling goroutine
OneLoop == Cardinality(Spawned) <= 1
\* Readings produced so far
Produced == nextSeq - 1

\* C1: with one polling loop and no consumer, after n ticks the channel holds
\* exactly the min(n, Capacity) most recently produced Readings, oldest first
C1_OverwriteOldest ==
    (OneLoop /\ ~consumed /\ BetweenTicks) =>
        /\ Len(readings) = Min(Produced, Capacity)
        /\ \A i \in 1..Len(readings) :
              readings[i].seq = Produced - Len(readings) + i

\* a tick found the channel full and delivered: the first Reading is gone
C1_Witness ==
    /\ OneLoop /\ ~consumed /\ BetweenTicks
    /\ Produced = Capacity + 1
    /\ Len(readings) = Capacity
    /\ readings[1].seq = Produced - Capacity + 1

\* C2: the number of queued Readings is between 0 and the capacity, under
\* every interleaving of ticks and consumer reads
C2_QueueBounded == Len(readings) >= 0 /\ Len(readings) <= Capacity

\* the channel is full again after a consumer removed Readings
C2_Witness == Len(readings) = Capacity /\ consumed /\ Produced > Capacity

\* C3: with one polling loop, a goroutine that reaches its blocking send
\* finds room in the channel, so the send completes without a consumer
C3_ProducerNeverBlocks ==
    \A l \in LoopIds : (OneLoop /\ pc[l] = "send") => Len(readings) < Capacity

\* the channel was full at the tick, a consumer ran, the send is next
C3_Witness == \E l \in LoopIds : pc[l] = "send" /\ OneLoop /\ consumed

\* C4: whenever the session is Running exactly one polling loop is active
\* and stays active until Stop, also after a restart, and no Stop fails
C4_StateMachine ==
    /\ running => (Cardinality(LiveLoops) = 1 /\ stopCh = "open")
    /\ ~panicked

\* C5: Stop on a Stopped session does not raise, does not close the stop
\* channel again and leaves the session Stopped
C5_StopIdempotent ==
    [][(Stop /\ ~running) => (~running' /\ ~panicked' /\ stopCh' = stopCh)]_vars

\* Stop was called on a session an earlier Stop had stopped
C5_Witness == lastOp = "StopNoop" /\ stopCh = "closed" /\ ~running /\ ~panicked

\* C6: Start on a Running session spawns nothing, and a session started and
\* never stopped has exactly one polling goroutine
C6_StartNoop ==
    /\ [][(Start /\ running) => (pc' = pc /\ running')]_vars
    /\ [](running /\ stopCh = "open" => Cardinality(LiveLoops) = 1)

\* Start was called on a Running session: still one goroutine
C6_Witness ==
    /\ lastOp = "StartNoop" /\ running /\ stopCh = "open"
    /\ Cardinality(Spawned) = 1

\* C7: after Stop, once the polling goroutines are gone, the stream of
\* Readings is marked ended, so a consumer ranging over it terminates
C7_StopEndsStream ==
    (stopCh = "closed" /\ LiveLoops = {}) => readingsCh = "closed"

\* C8: at most one Reading is enqueued after Stop was requested
C8_PromptCancel == enqAfterStop <= 1

\* C9: the connection is released once; a second Close does not reach
\* handler.Close() again
C9_CloseOnce == closeCalls <= 1

\* C10: the Reading that ReadPressure returns is Valid exactly when the
\* transaction succeeded with 4 bytes under Decimal or Float; a Valid Reading
\* has no error text and an invalid one has some
C10_ValidIff ==
    lastRead.reading.seq > 0 =>
        /\ lastRead.reading.Valid <=>
              /\ ~lastRead.resp.err
              /\ lastRead.resp.len = PayloadLen
              /\ lastRead.fmt \in {DecimalFormat, FloatFormat}
        /\ lastRead.reading.Valid => lastRead.reading.Error = <<>>
        /\ ~lastRead.reading.Valid => lastRead.reading.Error # <<>>

\* a payload longer than 4 bytes was read under the Float format: invalid
C10_Witness ==
    /\ lastRead.reading.seq > 0
    /\ ~lastRead.resp.err /\ lastRead.resp.len > PayloadLen
    /\ lastRead.fmt = FloatFormat
    /\ ~lastRead.reading.Valid /\ lastRead.reading.Error # <<>>

\* the payload is a NaN or an infinity after the [2,3,0,1] reordering
NonFinite == Exponent(data) = 255

\* C11: a payload decoded as a float whose exponent field is all ones is
\* reported invalid: the poll of a Float session gives a Reading that is
\* not Valid, and a probe that classified it as Float attaches no Reading
\* marked Valid
C11_NonFiniteInvalid ==
    NonFinite =>
        /\ (out.op = "poll" /\ out.fmt = FloatFormat) => ~out.reading.Valid
        /\ (out.op = "probe" /\ out.device.DataFormat = FloatFormat) =>
               \A i \in 1..Len(out.device.LastReading) :
                   ~out.device.LastReading[i].Valid

\* C12: the decimal decoders return the big-endian two's-complement int32
\* of the payload over 10, negative exactly when the sign bit is set, in
\* each branch, and the session decoder and the static one agree
C12_DecimalDecoding ==
    out.op = "decimal" =>
        /\ out.session.kind = "Tenths"
        /\ out.session.sig % 65536 = data[3] * 256 + data[4]
        /\ (out.session.sig \div 65536) % 65536 = data[1] * 256 + data[2]
        /\ out.session.sig >= 0 - 2147483647 - 1
        /\ out.session.sig <= 2147483647
        /\ out.session.sig < 0 <=> data[1] >= 128
        /\ out.static = out.session

\* a payload led by 0xFF was decoded to a negative value
C12_Witness ==
    /\ out.op = "decimal"
    /\ data[1] = 255
    /\ data[4] = 1
    /\ out.session.sig < 0

\* C13: the classifier answers the encoding with the higher confidence and
\* that confidence, and Decimal when the two are equal
C13_HigherWinsTiesDecimal ==
    out.op = "detect" =>
        /\ out.decimalConfidence > out.floatConfidence =>
               out.format = DecimalFormat /\ out.confidence = out.decimalConfidence
        /\ out.floatConfidence > out.decimalConfidence =>
               out.format = FloatFormat /\ out.confidence = out.floatConfidence
        /\ out.decimalConfidence = out.floatConfidence =>
               out.format = DecimalFormat

\* the sums of the weights w taken at most once each, in tenths
SubsetSums(w) ==
    {(IF 1 \in S THEN w[1] ELSE 0) + (IF 2 \in S THEN w[2] ELSE 0)
        + (IF 3 \in S THEN w[3] ELSE 0) : S \in SUBSET (1..3)}

\* C14: a confidence lies in [0, 1] and is a sum of some of the three
\* weights of its encoding, each taken at most once
C14_ConfidenceRange ==
    out.op = "detect" =>
        /\ out.confidence >= 0 /\ out.confidence <= 10
        /\ out.decimalConfidence >= 0 /\ out.decimalConfidence <= 10
        /\ out.floatConfidence >= 0 /\ out.floatConfidence <= 10
        /\ out.decimalConfidence \in SubsetSums(<<5, 3, 2>>)
        /\ out.floatConfidence \in SubsetSums(<<4, 3, 3>>)

\* a payload that earns every weight of both encodings
C14_Witness ==
    /\ out.op = "detect"
    /\ out.decimalConfidence = 10
    /\ out.floatConfidence = 10

\* ScanDevices has returned
ScanEnded == scanPc \in {"done", "returned"}
\* the responsive ones among the first n probes
ResponsiveAmong(n) == {k \in 1..n : probes[k].device.Responsive}
\* the ones among the first n probes that ScanDevices retains
RetainedAmong(n) ==
    {k \in 1..n : ~scanConfig.SkipUnresponsive \/ probes[k].device.Responsive}
\* the candidate was probed
Probed(c) == \E k \in 1..Len(probes) : probes[k].cand = c

\* C15: non-responsive probes do not count toward the device cap: a scan
\* goes from a probed station ID to the next one of the pass unless as many
\* responsive devices as the cap were found, and the scan of P1 at 9600
\* over stations 1 and 2 where only station 2 answers ends with 2 tested,
\* 1 successful and station 2 as the one device retained
C15_CapCountsResponsive ==
    ScanEnded =>
        /\ \A k \in 1..Len(probes), j \in 1..Len(scanConfig.SlaveIDs) :
               (/\ probes[k].cand[3] = scanConfig.SlaveIDs[j]
                /\ j < Len(scanConfig.SlaveIDs)
                /\ Cardinality(ResponsiveAmong(k)) < scanConfig.MaxDevices)
               => Probed(<<probes[k].cand[1], probes[k].cand[2],
                           scanConfig.SlaveIDs[j + 1]>>)
        /\ (/\ call = "ScanDevices"
            /\ scanConfig.SerialPorts = <<"P1">>
            /\ scanConfig.BaudRates = <<9600>>
            /\ scanConfig.SlaveIDs = <<1, 2>>
            /\ scanConfig.SkipUnresponsive
            /\ world = {<<"P1", 9600, 2>>})
           => /\ result.TotalTested = 2
              /\ result.Successful = 1
              /\ Len(result.Devices) = 1
              /\ result.Devices[1].SlaveID = 2
              /\ result.Devices[1].Responsive

\* C16: the scan stops globally at the cap: result.Devices never holds
\* more than MaxDevices devices, and no probe is made once MaxDevices of
\* the probes made are ones the scan retains
C16_GlobalCap ==
    /\ Len(result.Devices) <= scanConfig.MaxDevices
    /\ \A k \in 1..Len(probes) :
           Cardinality(RetainedAmong(k - 1)) < scanConfig.MaxDevices

\* the place of a candidate in the probe order
Rank(c) ==
    LET At(q, x) == CHOOSE i \in 1..Len(q) : q[i] = x
    IN  (At(scanConfig.SerialPorts, c[1]) * Len(scanConfig.BaudRates)
            + At(scanConfig.BaudRates, c[2])) * Len(scanConfig.SlaveIDs)
        + At(scanConfig.SlaveIDs, c[3])

\* C17: AutoConfigure returns an error exactly when no candidate of the
\* quick-scan search space is responsive, and else the port, the station
\* ID and the classified encoding of the first responsive candidate in
\* probe order
C17_AutoConfigure ==
    scanPc = "returned" =>
        /\ autoConfig.err <=> world = {}
        /\ ~autoConfig.err =>
               \E k \in 1..Len(probes) :
                   /\ probes[k].cand \in world
                   /\ \A c \in world : Rank(probes[k].cand) <= Rank(c)
                   /\ autoConfig.Device = probes[k].cand[1]
                   /\ autoConfig.SlaveID = probes[k].cand[3]
                   /\ autoConfig.DataFormat = probes[k].device.DataFormat

\* the DeviceInfo of the probes made, in order
ProbeDevices == [k \in 1..Len(probes) |-> probes[k].device]

\* C18: when a scan ends TotalTested is the number of probes made and
\* Successful the number of responsive ones; Devices lists in probe order
\* every probe when SkipUnresponsive is off and the responsive ones when
\* it is on
C18_Counters ==
    ScanEnded =>
        /\ result.TotalTested = Len(probes)
        /\ result.Successful = Cardinality(ResponsiveAmong(Len(probes)))
        /\ result.Successful <= result.TotalTested
        /\ ~scanConfig.SkipUnresponsive => result.Devices = ProbeDevices
        /\ scanConfig.SkipUnresponsive =>
               /\ result.Devices = getResponsiveDevices(ProbeDevices)
               /\ Len(result.Devices) = result.Successful

\* a scan of three probes or more ended with responsive and unresponsive
\* probes, the unresponsive ones filtered out
C18_Witness ==
    /\ scanPc = "done"
    /\ scanConfig.SkipUnresponsive
    /\ Len(probes) >= 3
    /\ result.Successful >= 1
    /\ result.TotalTested > result.Successful

\* the transport did not give a well-formed answer
Failed(o) == ~o.conn \/ o.err \/ o.len # PayloadLen

\* C19: a candidate whose open fails, whose transaction fails or whose
\* payload is not 4 bytes long is recorded as a non-responsive probe with
\* a diagnostic message, and the scan goes on
C19_FailureRecorded ==
    \A k \in 1..Len(probes) :
        Failed(probes[k].o) =>
            /\ ~probes[k].device.Responsive
            /\ probes[k].device.Error # <<>>
            /\ k = Len(probes) => scanPc # "panic"

\* C20: a probe is responsive exactly when the transport opened, the
\* transaction succeeded and the payload has exactly 4 bytes
C20_ResponsiveIff ==
    \A k \in 1..Len(probes) :
        probes[k].device.Responsive <=>
            (probes[k].o.conn /\ ~probes[k].o.err /\ probes[k].o.len = PayloadLen)

\* a scan met a refused open, a failed transaction, a long payload and a
\* well-formed one
C20_Witness ==
    /\ \E k \in 1..Len(probes) : ~probes[k].o.conn
    /\ \E k \in 1..Len(probes) : probes[k].o.err
    /\ \E k \in 1..Len(probes) :
           /\ probes[k].o.conn /\ ~probes[k].o.err
           /\ probes[k].o.len > PayloadLen
    /\ \E k \in 1..Len(probes) : probes[k].device.Responsive

\* the sum of the numerators of the values fed, and of their squares
RECURSIVE SumOf(_)
SumOf(q) == IF q = <<>> THEN 0 ELSE Head(q)[1] + SumOf(Tail(q))
RECURSIVE SumSqOf(_)
SumSqOf(q) == IF q = <<>> THEN 0 ELSE Head(q)[1] * Head(q)[1] + SumSqOf(Tail(q))

\* C21: after the Update calls made since construction or the last Reset,
\* Count is the number of calls, Min and Max are the smallest and the
\* largest value fed, Mean is their arithmetic mean, Min <= Mean <= Max,
\* and the first Update sets Min = Max = Mean = value and Count = 1
C21_RunningStatistics ==
    Len(fed) >= 1 =>
        /\ stats.Count = Len(fed)
        /\ \E i \in 1..Len(fed) : stats.Min = fed[i]
        /\ \A i \in 1..Len(fed) : ~FracLess(fed[i], stats.Min)
        /\ \E i \in 1..Len(fed) : stats.Max = fed[i]
        /\ \A i \in 1..Len(fed) : ~FracLess(stats.Max, fed[i])
        /\ stats.Mean = Frac(SumOf(fed), Len(fed))
        /\ ~FracLess(stats.Mean, stats.Min)
        /\ ~FracLess(stats.Max, stats.Mean)
        /\ Len(fed) = 1 =>
               stats.Min = fed[1] /\ stats.Max = fed[1] /\ stats.Mean = fed[1]

\* 10, 20 and 30 were fed
C21_Witness ==
    /\ fed = <<FracOf(10), FracOf(20), FracOf(30)>>
    /\ stats.Count = 3
    /\ stats.Mean = FracOf(20)

\* C22: after two Update calls or more the variance accumulator holds the
\* sample variance of all the values fed, the square of their sample
\* standard deviation, whatever their number
C22_ExactDeviation ==
    Len(fed) >= 2 =>
        stats.StdDev = Frac(Len(fed) * SumSqOf(fed) - SumOf(fed) * SumOf(fed),
                            Len(fed) * (Len(fed) - 1))

\* C23: NewPressureMeter returns an error, creates no session and opens no
\* connection when the station ID is outside 1..247 or the read interval
\* is under the minimum, so no Start runs with an interval under the
\* minimum
C23_ConstructionValidates ==
    /\ (/\ newResult.state # "none"
        /\ \/ newConfig.SlaveID < 1
           \/ newConfig.SlaveID > 247
           \/ newConfig.ReadInterval < MinReadInterval)
       => newResult.state = "error" /\ newResult.err # <<>> /\ ~newResult.connected
    /\ newResult.started => newResult.interval >= MinReadInterval

\* the command line is read and gives the flag
Given(flag) == loadInput.useFlags /\ ~loadInput.parsed /\ flag # <<>>

\* C24: a field the environment sets and the command line does not give
\* keeps the value of the environment and is attributed to the
\* environment, for the device, the station ID, the interval and the data
\* format
C24_EnvironmentKept ==
    (loadResult.state = "loaded" /\ loadInput.useEnv) =>
        LET info == loadResult.info[1]
            env == loadInput.env
            flags == loadInput.flags
        IN  /\ (env.Device # "" /\ ~Given(flags.device))
               => /\ info.Config.Device = env.Device
                  /\ info.Source.device = SourceEnv
            /\ (parseSlaveID(env.SlaveID) # <<>> /\ ~Given(flags.slaveID))
               => /\ info.Config.SlaveID = parseSlaveID(env.SlaveID)[1]
                  /\ info.Source.slaveid = SourceEnv
            /\ (ParseDuration(env.ReadInterval) # <<>> /\ ~Given(flags.interval))
               => /\ info.Config.ReadInterval = ParseDuration(env.ReadInterval)[1]
                  /\ info.Source.readinterval = SourceEnv
            /\ (parseDataFormat(env.DataFormat).ok /\ ~Given(flags.format))
               => /\ info.Config.DataFormat = parseDataFormat(env.DataFormat).format
                  /\ info.Source.dataformat = SourceEnv

\* the place of the baud rate of a probe in config.BaudRates
BaudPlace(k) ==
    CHOOSE j \in 1..Len(scanConfig.BaudRates) :
        scanConfig.BaudRates[j] = probes[k].cand[2]
\* probes i and k are of one pass: one port at one baud rate
SamePass(i, k) ==
    probes[i].cand[1] = probes[k].cand[1] /\ probes[i].cand[2] = probes[k].cand[2]
\* probe k is the last one of its port
LastOfPort(k) ==
    k = Len(probes) \/ probes[k + 1].cand[1] # probes[k].cand[1]

\* C25: on one port the baud rates are tried in the configured order; a
\* pass with a responsive probe is the last of its port, and after a pass
\* without one the next baud rate is tried
C25_BaudOrder ==
    /\ \A k \in 1..Len(probes) :
           (k = 1 \/ probes[k - 1].cand[1] # probes[k].cand[1]) => BaudPlace(k) = 1
    /\ \A k \in 1..(Len(probes) - 1) :
           probes[k + 1].cand[1] = probes[k].cand[1]
               => BaudPlace(k + 1) \in {BaudPlace(k), BaudPlace(k) + 1}
    /\ \A i, k \in 1..Len(probes) :
           (i < k /\ probes[i].cand[1] = probes[k].cand[1] /\ ~SamePass(i, k))
               => ~probes[i].device.Responsive
    /\ ScanEnded =>
           \A k \in 1..Len(probes) :
               LastOfPort(k) =>
                   \/ BaudPlace(k) = Len(scanConfig.BaudRates)
                   \/ \E i \in 1..k : SamePass(i, k) /\ probes[i].device.Responsive

\* a scan of two ports at two baud rates: the first port had no answer at
\* either, the second answered at the first one and was not probed again
C25_Witness ==
    /\ scanPc = "done"
    /\ Len(scanConfig.BaudRates) = 2
    /\ Len(probes) = 3
    /\ probes[1].cand[1] = probes[2].cand[1]
    /\ BaudPlace(1) = 1 /\ BaudPlace(2) = 2
    /\ ~probes[1].device.Responsive
    /\ probes[3].cand[1] # probes[1].cand[1]
    /\ probes[3].device.Responsive

RECURSIVE TransportLog(_)
\* what the first n probes did to their transports, in order
TransportLog(n) ==
    IF n = 0 THEN <<>> ELSE TransportLog(n - 1) \o probes[n].transport
\* the transports open after the first n steps of a log
OpenAfter(log, n) ==
    Cardinality({i \in 1..n : log[i] = "Connect"})
        - Cardinality({i \in 1..n : log[i] = "Close"})

\* C26: at every point of a scan at most one transport is open, each one
\* opened is closed before the next probe, and none is open when
\* ScanDevices returns
C26_OneTransport ==
    LET log == TransportLog(Len(probes))
    IN  /\ \A n \in 0..Len(log) : OpenAfter(log, n) \in {0, 1}
        /\ \A k \in 0..Len(probes) :
               OpenAfter(TransportLog(k), Len(TransportLog(k))) = 0
        /\ ScanEnded => OpenAfter(log, Len(log)) = 0

\* a scan that ended after a probe whose read failed, one that answered
\* and one that could not connect
C26_Witness ==
    /\ scanPc = "done"
    /\ \E i, j, k \in 1..Len(probes) :
           /\ probes[i].o = ReadFailed
           /\ probes[j].device.Responsive
           /\ probes[k].o = ConnectFailed

\* C27: the Decimal confidence holds the third weight, 0.2, when the first
\* raw byte is under 0x80 or is 0xFF, and not when it is in 0x80..0xFE
C27_FirstByteWeight ==
    out.op = "detect" =>
        LET p == parseDecimalFormatStatic(data)
            others == (IF InRange(p) THEN 5 ELSE 0) + (IF OneDecimal(p) THEN 3 ELSE 0)
        IN  (out.decimalConfidence - others = 2)
                <=> (data[1] < 128 \/ data[1] = 255)

\* C28: a scan never reads the Reading of a responsive probe that has
\* none: the probes whose Pressure the verbose log prints carry a Reading,
\* and no scan ends in the nil dereference
C28_ReadingPresent ==
    /\ \A k \in 1..Len(probes) :
           (verbose /\ probes[k].device.Responsive)
               => probes[k].device.LastReading # <<>>
    /\ scanPc # "panic"

\* C29: with two goroutines calling Stop or Close on a Running session,
\* in every interleaving, pm.stopCh is closed at most once, nothing
\* panics, and when both calls have returned the session is Stopped
C29_ConcurrentStop ==
    /\ stopChCloses <= 1
    /\ ~panicked
    /\ (\A t \in Callers : callerPc[t] = "done")
           => ~running /\ stopCh = "closed"

\* C30: Close releases the connection only after the polling loop has
\* stopped: once the connection is closed no goroutine of the loop is
\* inside a read transaction, whether entered before or after the close
C30_NoReadOnClosed ==
    (closeCalls > 0 /\ ~handlerOpen) =>
        \A l \in LoopIds : pc[l] # "read"

====
